---- MODULE Spec2Model ----
(***************************************************************************)
(* cf-pages-cli (src/src/main.rs): synchronises the environment variables  *)
(* of a Cloudflare Pages project with a local JSON file.                   *)
(*                                                                         *)
(* Encodings.  Option<T>: None is <<>>, Some(x) is <<x>>.  BTreeMap<K,V>:  *)
(* a function whose domain is the set of keys.  Result<()>: "Ok" / "Err".  *)
(* A JSON document of the env file: a record whose two fields are          *)
(* <<"missing">>, <<"null">> or <<"object", map>>.                         *)
(***************************************************************************)
EXTENDS Integers, Sequences, FiniteSets, TLC

VARIABLES
    pc,                        \* position of the running function
    self,                      \* the parsed subcommand struct (GetEnvVars / SetEnvVars / ToEnvFile)
    old_env,                   \* generate_env_patch: argument old_env
    new_env,                   \* generate_env_patch: argument new_env
    env_patch,                 \* generate_env_patch: returned CloudflarePagesEnvironment
    env_config,                \* From<CloudflarePagesEnvironment>: argument value
    var_map,                   \* From<CloudflarePagesEnvironment>: returned BTreeMap<String, String>
    requests,                  \* HTTP requests sent so far, in order
    response,                  \* outcome of the last HTTP request
    deployment,                \* GetEnvVars::run: local deployment
    existing_vars,             \* GetEnvVars::run / SetEnvVars::run: local existing_vars
    new_vars,                  \* SetEnvVars::run: local new_vars
    all_vars,                  \* ToEnvFile::run: local all_vars
    deployment_configs_patch,  \* SetEnvVars::run: local deployment_configs_patch
    buffer,                    \* ToEnvFile::run: local buffer (sequence of lines)
    stdout,                    \* what the process printed
    out_file,                  \* state of the file at the output path
    result                     \* what run() returned

\* the locals of the two pure functions
fnVars == <<old_env, new_env, env_patch, env_config, var_map>>
\* the locals of the three run() functions
runVars == <<deployment, existing_vars, new_vars, all_vars, deployment_configs_patch, buffer>>
\* what the process did to the outside
ioVars == <<requests, response, stdout, out_file, result>>

vars == <<pc, self, fnVars, runVars, ioVars>>

(***************************************************************************)
(* Bounds of the model.                                                    *)
(***************************************************************************)
\* variable names of a remote environment or of an argument of the pure functions
MaxNames == 3
\* distinct variable values (the first one is the empty string)
MaxValues == 2
\* variable names per environment where a local env file is read (push, render)
MaxFileNames == 1

NameOf == <<"A", "B", "C", "D", "E">>
ValueOf == <<"", "1", "2", "3">>

Names == {NameOf[i] : i \in 1..MaxNames}
FileNames == {NameOf[i] : i \in 1..MaxFileNames}
Values == {ValueOf[i] : i \in 1..MaxValues}

(***************************************************************************)
(* Option<T> and BTreeMap<K, V>                                            *)
(***************************************************************************)
None == <<>>
Some(x) == <<x>>
IsSome(o) == Len(o) = 1
IsNone(o) == Len(o) = 0
Unwrap(o) == o[1]
Option(S) == {None} \cup {Some(x) : x \in S}

EmptyMap == <<>>
Maps(K, V) == UNION {[D -> V] : D \in SUBSET K}
\* BTreeMap::insert of every entry of entries; an existing entry is replaced
InsertAll(m, entries) ==
    [k \in (DOMAIN m) \cup (DOMAIN entries) |-> IF k \in DOMAIN entries THEN entries[k] ELSE m[k]]

(***************************************************************************)
(* Data types                                                              *)
(***************************************************************************)
Environment == {"production", "preview"}

\* CloudflarePagesEnvVarValue with the only modelled type, PlainText
PlainText(v) == [type |-> "plain_text", value |-> v]
CloudflarePagesEnvVarValue(V) == {PlainText(v) : v \in V}

\* CloudflarePagesEnvironment over the names N
CloudflarePagesEnvironment(N) ==
    {[env_vars |-> e] : e \in Option(Maps(N, Option(CloudflarePagesEnvVarValue(Values))))}

CloudflarePagesDeploymentConfigs(N) ==
    [preview : CloudflarePagesEnvironment(N), production : CloudflarePagesEnvironment(N)]

VariableMaps(N) == Maps(N, Values)

FullEnvVarsFile(N) == [production : VariableMaps(N), preview : VariableMaps(N)]

EnvVarsFile(N) == [production : Option(VariableMaps(N)), preview : Option(VariableMaps(N))]

(***************************************************************************)
(* Representation conversions                                              *)
(***************************************************************************)
\* Option<CloudflarePagesEnvVarValue> -> String:
\* value.map(|var_value| var_value.value).unwrap_or_default()
UnwrapValue(value) == IF IsSome(value) THEN Unwrap(value).value ELSE ""

\* faulty variant of IntoVariableMap: an entry whose value is absent is skipped
IntoVariableMap_SkipsNull(value) ==
    IF IsSome(value.env_vars)
    THEN LET env_vars == Unwrap(value.env_vars)
         IN  [key \in {k \in DOMAIN env_vars : IsSome(env_vars[k])} |->
                  Unwrap(env_vars[key]).value]
    ELSE EmptyMap

\* impl From<CloudflarePagesEnvironment> for BTreeMap<String, String>
IntoVariableMap(value) ==
    IF IsSome(value.env_vars)
    THEN LET env_vars == Unwrap(value.env_vars)
         IN  [key \in DOMAIN env_vars |-> UnwrapValue(env_vars[key])]
    ELSE EmptyMap

\* impl From<CloudflarePagesDeploymentConfigs> for FullEnvVarsFile
IntoFullEnvVarsFile(value) ==
    [production |-> IntoVariableMap(value.production),
     preview    |-> IntoVariableMap(value.preview)]

\* impl From<CloudflarePagesDeploymentConfigs> for EnvVarsFile
IntoEnvVarsFile(value) ==
    [production |-> Some(IntoVariableMap(value.production)),
     preview    |-> Some(IntoVariableMap(value.preview))]

(***************************************************************************)
(* Diff engine                                                             *)
(***************************************************************************)
\* faulty variant of IsNewOrChanged: the comparison with the old value is left out
IsNewOrChanged_Always(old, new, key) == TRUE

\* the first filter closure of generate_env_patch: new and changed variables
IsNewOrChanged(old, new, key) ==
    IF key \in DOMAIN old
    THEN new[key] # old[key]
    ELSE TRUE

\* faulty variant of IsRemoved: the negation is left out
IsRemoved_Inverted(new, key) == key \in DOMAIN new

\* the second filter closure of generate_env_patch: removed variables
IsRemoved(new, key) == ~(key \in DOMAIN new)

\* faulty variant of ChangeEntry: an empty value becomes a null entry
ChangeEntry_EmptyIsNull(v) == IF v = "" THEN None ELSE Some(PlainText(v))

\* the entry inserted for a new or changed variable
ChangeEntry(v) == Some(PlainText(v))

\* faulty variant of generate_env_patch: an absent new_env is read as an empty map
generate_env_patch_AbsentAsEmpty(old, new) ==
    LET n == IF IsSome(new) THEN Unwrap(new) ELSE EmptyMap
        changed == {key \in DOMAIN n : IF key \in DOMAIN old THEN n[key] # old[key] ELSE TRUE}
        changes1 == InsertAll(EmptyMap, [key \in changed |-> Some(PlainText(n[key]))])
        removed == {key \in DOMAIN old : ~(key \in DOMAIN n)}
    IN  [env_vars |-> Some(InsertAll(changes1, [key \in removed |-> None]))]

generate_env_patch(old, new) ==
    LET changes0 == EmptyMap
        changes ==
            IF IsSome(new)
            THEN LET n == Unwrap(new)
                     changed == {key \in DOMAIN n : IsNewOrChanged(old, n, key)}
                     changes1 == InsertAll(changes0, [key \in changed |-> ChangeEntry(n[key])])
                     removed == {key \in DOMAIN old : IsRemoved(n, key)}
                 IN  InsertAll(changes1, [key \in removed |-> None])
            ELSE changes0
    IN  [env_vars |-> Some(changes)]

\* faulty variant of generate_deployment_configs_patch: the desired sections are crossed
generate_deployment_configs_patch_Crossed(old_vars, new_vars_) ==
    [preview    |-> generate_env_patch(old_vars.preview, new_vars_.production),
     production |-> generate_env_patch(old_vars.production, new_vars_.preview)]

generate_deployment_configs_patch(old_vars, new_vars_) ==
    [preview    |-> generate_env_patch(old_vars.preview, new_vars_.preview),
     production |-> generate_env_patch(old_vars.production, new_vars_.production)]

\* CloudflarePagesDeploymentConfigs::is_empty
IsEnvEmpty(env) ==
    IF IsSome(env.env_vars) THEN DOMAIN Unwrap(env.env_vars) = {} ELSE TRUE

\* faulty variant of is_empty: || in place of &&
is_empty_Either(configs) == IsEnvEmpty(configs.preview) \/ IsEnvEmpty(configs.production)

is_empty(configs) == IsEnvEmpty(configs.preview) /\ IsEnvEmpty(configs.production)

(***************************************************************************)
(* SpecDiff: generate_env_patch applied to every current / desired pair    *)
(***************************************************************************)
Unused == <<>>
NoFile == [state |-> "untouched", content |-> <<>>]

FnIdle ==
    /\ old_env = Unused /\ new_env = Unused /\ env_patch = Unused
    /\ env_config = Unused /\ var_map = Unused
RunIdle ==
    /\ deployment = Unused /\ existing_vars = Unused /\ new_vars = Unused
    /\ all_vars = Unused /\ deployment_configs_patch = Unused /\ buffer = <<>>
IoIdle ==
    /\ requests = <<>> /\ response = Unused /\ stdout = <<>> /\ out_file = NoFile
    /\ result = "running"

InitDiff ==
    /\ pc = "generate_env_patch"
    /\ self = Unused
    /\ old_env \in VariableMaps(Names)
    /\ new_env \in Option(VariableMaps(Names))
    /\ env_patch = Unused /\ env_config = Unused /\ var_map = Unused
    /\ RunIdle /\ IoIdle

GenerateEnvPatch ==
    /\ pc = "generate_env_patch"
    /\ env_patch' = generate_env_patch(old_env, new_env)
    /\ pc' = "returned"
    /\ UNCHANGED <<self, old_env, new_env, env_config, var_map, runVars, ioVars>>

NextDiff == GenerateEnvPatch

SpecDiff == InitDiff /\ [][NextDiff]_vars

(***************************************************************************)
(* SpecConv: the conversion applied to every remote environment config     *)
(***************************************************************************)
InitConv ==
    /\ pc = "into"
    /\ self = Unused
    /\ env_config \in CloudflarePagesEnvironment(Names)
    /\ old_env = Unused /\ new_env = Unused /\ env_patch = Unused /\ var_map = Unused
    /\ RunIdle /\ IoIdle

Into ==
    /\ pc = "into"
    /\ var_map' = IntoVariableMap(env_config)
    /\ pc' = "returned"
    /\ UNCHANGED <<self, old_env, new_env, env_patch, env_config, runVars, ioVars>>

NextConv == Into

SpecConv == InitConv /\ [][NextConv]_vars

(***************************************************************************)
(* Files and the network, as the three pipelines see them                  *)
(***************************************************************************)
\* one top-level key of the JSON env file: left out, null, or an object
JsonSections(N) == {<<"missing">>, <<"null">>} \cup {<<"object", m>> : m \in VariableMaps(N)}
\* the JSON documents serde_json can read as an EnvVarsFile
JsonEnvFiles(N) == [production : JsonSections(N), preview : JsonSections(N)]

\* serde's derived Deserialize for an Option field: a missing key and null are None
ParseSection(j) == IF j[1] = "object" THEN Some(j[2]) ELSE None
\* serde_json::from_reader::<EnvVarsFile>
ParseEnvVarsFile(doc) ==
    [production |-> ParseSection(doc.production), preview |-> ParseSection(doc.preview)]

\* serde's derived Serialize for an Option field: None is written as null
SerializeSection(o) == IF IsSome(o) THEN <<"object", Unwrap(o)>> ELSE <<"null">>
\* serde_json::to_writer_pretty / to_string_pretty of an EnvVarsFile
SerializeEnvVarsFile(file) ==
    [production |-> SerializeSection(file.production),
     preview    |-> SerializeSection(file.preview)]

GetProject == [method |-> "GET", resource |-> "project", body |-> <<>>]
GetDeployment == [method |-> "GET", resource |-> "deployment", body |-> <<>>]
\* the PATCH of the project, with its CloudflarePagesPatchRequest body
PatchProject(patch) ==
    [method |-> "PATCH", resource |-> "project", body |-> <<[deployment_configs |-> patch]>>]

\* the ways a request can end: send()? or json()? fails, or an envelope arrives
TransportError == [status |-> "error", success |-> FALSE]
Envelope(success) == [status |-> "ok", success |-> success]
Responses == {TransportError, Envelope(FALSE), Envelope(TRUE)}

\* faulty variant of Succeeded: the success flag of the envelope is not looked at
Succeeded_IgnoresSuccess(resp) == resp.status = "ok"

\* `.send()?.json()?` returned and `if !response.success { bail }` did not bail
Succeeded(resp) == resp.status = "ok" /\ resp.success

Line(text) == <<"line", text>>

(***************************************************************************)
(* SpecPush: SetEnvVars::run                                               *)
(***************************************************************************)
InitPush ==
    /\ pc = "set_get_project"
    /\ self = [command |-> "set-env-vars"]
    /\ FnIdle /\ RunIdle /\ IoIdle

\* lines 287-302: GET the project and flatten its deployment configs
SetGetProject ==
    /\ pc = "set_get_project"
    /\ requests' = Append(requests, GetProject)
    /\ response' \in Responses
    /\ IF Succeeded(response')
       THEN /\ \E deployment_configs \in CloudflarePagesDeploymentConfigs(FileNames) :
                  existing_vars' = IntoFullEnvVarsFile(deployment_configs)
            /\ pc' = "set_read_file"
            /\ UNCHANGED result
       ELSE /\ result' = "Err" /\ pc' = "done"
            /\ UNCHANGED existing_vars
    /\ UNCHANGED <<self, fnVars, deployment, new_vars, all_vars, deployment_configs_patch,
                   buffer, stdout, out_file>>

\* lines 304-306: read the desired state and compute the patch
SetReadFile ==
    /\ pc = "set_read_file"
    /\ \/ /\ result' = "Err" /\ pc' = "done"
          /\ UNCHANGED <<new_vars, deployment_configs_patch>>
       \/ /\ \E doc \in JsonEnvFiles(FileNames) :
                new_vars' = ParseEnvVarsFile(doc)
          /\ deployment_configs_patch' =
                generate_deployment_configs_patch(existing_vars, new_vars')
          /\ pc' = "set_submit"
          /\ UNCHANGED result
    /\ UNCHANGED <<self, fnVars, deployment, existing_vars, all_vars, buffer, requests,
                   response, stdout, out_file>>

\* lines 307-308: nothing to change
SetNoChanges ==
    /\ pc = "set_submit"
    /\ is_empty(deployment_configs_patch)
    /\ stdout' = Append(stdout, Line("No changes detected. Not submitting patch."))
    /\ result' = "Ok" /\ pc' = "done"
    /\ UNCHANGED <<self, fnVars, runVars, requests, response, out_file>>

\* lines 309-329: PATCH the project
SetPatchProject ==
    /\ pc = "set_submit"
    /\ ~is_empty(deployment_configs_patch)
    /\ requests' = Append(requests, PatchProject(deployment_configs_patch))
    /\ response' \in Responses
    /\ IF Succeeded(response')
       THEN /\ stdout' = Append(stdout, Line("Environment variables successfully updated"))
            /\ result' = "Ok"
       ELSE /\ result' = "Err"
            /\ UNCHANGED stdout
    /\ pc' = "done"
    /\ UNCHANGED <<self, fnVars, runVars, out_file>>

NextPush == SetGetProject \/ SetReadFile \/ SetNoChanges \/ SetPatchProject

SpecPush == InitPush /\ [][NextPush]_vars

(***************************************************************************)
(* Writing the output file (File::create, then the write)                  *)
(***************************************************************************)
\* File::create fails: nothing is written
CreateFails == out_file' = out_file
\* File::create truncates the file and the write after it fails
WriteFails == out_file' = [state |-> "partial", content |-> <<>>]
\* the whole content is written
WriteSucceeds(content) == out_file' = [state |-> "written", content |-> content]

(***************************************************************************)
(* SpecFetch: GetEnvVars::run                                              *)
(***************************************************************************)
\* CloudflarePagesDeployment: the environment tag and the flattened-in vars
CloudflarePagesDeployment(N) ==
    [id : {"d1"}, environment : Environment, vars : CloudflarePagesEnvironment(N)]

InitFetch ==
    /\ pc = "get_fetch"
    /\ self \in [command : {"get-env-vars"}, deployment : Option({"d1"}),
                 output : Option({"vars.json"})]
    /\ FnIdle /\ RunIdle /\ IoIdle

\* faulty variant of SelectEnvironment: the two arms are exchanged
SelectEnvironment_Swapped(d, flat) ==
    IF d.environment = "production"
    THEN [production |-> None, preview |-> Some(flat)]
    ELSE [production |-> Some(flat), preview |-> None]

\* the match on deployment.environment, lines 232-241
SelectEnvironment(d, flat) ==
    IF d.environment = "production"
    THEN [production |-> Some(flat), preview |-> None]
    ELSE [production |-> None, preview |-> Some(flat)]

\* lines 213-241: fetch one deployment
GetFetchDeployment ==
    /\ pc = "get_fetch"
    /\ IsSome(self.deployment)
    /\ requests' = Append(requests, GetDeployment)
    /\ response' \in Responses
    /\ IF Succeeded(response')
       THEN /\ deployment' \in CloudflarePagesDeployment(Names)
            /\ existing_vars' = SelectEnvironment(deployment', IntoVariableMap(deployment'.vars))
            /\ pc' = "get_output"
            /\ UNCHANGED result
       ELSE /\ result' = "Err" /\ pc' = "done"
            /\ UNCHANGED <<deployment, existing_vars>>
    /\ UNCHANGED <<self, fnVars, new_vars, all_vars, deployment_configs_patch, buffer,
                   stdout, out_file>>

\* lines 242-259: fetch the whole project
GetFetchProject ==
    /\ pc = "get_fetch"
    /\ IsNone(self.deployment)
    /\ requests' = Append(requests, GetProject)
    /\ response' \in Responses
    /\ IF Succeeded(response')
       THEN /\ \E deployment_configs \in CloudflarePagesDeploymentConfigs(Names) :
                  existing_vars' = IntoEnvVarsFile(deployment_configs)
            /\ pc' = "get_output"
            /\ UNCHANGED result
       ELSE /\ result' = "Err" /\ pc' = "done"
            /\ UNCHANGED existing_vars
    /\ UNCHANGED <<self, fnVars, deployment, new_vars, all_vars, deployment_configs_patch,
                   buffer, stdout, out_file>>

\* lines 261-271: write the JSON to the output path
GetWriteFile ==
    /\ pc = "get_output"
    /\ IsSome(self.output)
    /\ \/ /\ CreateFails
          /\ result' = "Err"
          /\ UNCHANGED stdout
       \/ /\ WriteFails
          /\ result' = "Err"
          /\ UNCHANGED stdout
       \/ /\ WriteSucceeds(SerializeEnvVarsFile(existing_vars))
          /\ stdout' = Append(stdout, Line("Environment variables written to: vars.json"))
          /\ result' = "Ok"
    /\ pc' = "done"
    /\ UNCHANGED <<self, fnVars, runVars, requests, response>>

\* lines 272-275: print the JSON
GetPrint ==
    /\ pc = "get_output"
    /\ IsNone(self.output)
    /\ stdout' = Append(stdout, <<"json", SerializeEnvVarsFile(existing_vars)>>)
    /\ result' = "Ok" /\ pc' = "done"
    /\ UNCHANGED <<self, fnVars, runVars, requests, response, out_file>>

NextFetch == GetFetchDeployment \/ GetFetchProject \/ GetWriteFile \/ GetPrint

SpecFetch == InitFetch /\ [][NextFetch]_vars

(***************************************************************************)
(* SpecRender: ToEnvFile::run                                              *)
(***************************************************************************)
InitRender ==
    /\ pc = "toenv_read"
    /\ self \in [command : {"to-env-file"}, environment : Environment, empty : BOOLEAN,
                 output : Option({".env"})]
    /\ FnIdle /\ RunIdle /\ IoIdle

\* the position of a name in the order of BTreeMap<String, _>::iter
NameIndex(name) == CHOOSE i \in 1..Len(NameOf) : NameOf[i] = name

\* serde_json::to_string of a String; no value of ValueOf needs an escape
JsonString(value) == "\"" \o value \o "\""

\* the body of the for loop, lines 351-355, without the line's "\n"
RenderLine(empty, key, value) ==
    IF empty
    THEN key \o "=\"\""
    ELSE key \o "=" \o JsonString(value)

\* the for loop, lines 350-356, over the keys in ascending order
RECURSIVE RenderFrom(_, _, _)
RenderFrom(empty, target_env_vars, keys) ==
    IF keys = {}
    THEN <<>>
    ELSE LET key == CHOOSE k \in keys : \A other \in keys : NameIndex(k) <= NameIndex(other)
         IN  <<RenderLine(empty, key, target_env_vars[key])>>
                 \o RenderFrom(empty, target_env_vars, keys \ {key})

Render(empty, target_env_vars) == RenderFrom(empty, target_env_vars, DOMAIN target_env_vars)

\* faulty variant of TargetEnvVars: the two arms are exchanged
TargetEnvVars_Swapped(environment, file) ==
    IF environment = "production" THEN file.preview ELSE file.production

\* the match on self.environment, lines 338-341
TargetEnvVars(environment, file) ==
    IF environment = "production" THEN file.production ELSE file.preview

\* lines 337-356: read the file, select the environment, render the lines
ToEnvRead ==
    /\ pc = "toenv_read"
    /\ \/ /\ result' = "Err" /\ pc' = "done"
          /\ UNCHANGED <<all_vars, buffer>>
       \/ \E doc \in JsonEnvFiles(FileNames) :
             /\ all_vars' = ParseEnvVarsFile(doc)
             /\ LET target_env_vars == TargetEnvVars(self.environment, all_vars')
                IN  IF IsSome(target_env_vars)
                    THEN /\ buffer' = Render(self.empty, Unwrap(target_env_vars))
                         /\ pc' = "toenv_output"
                         /\ UNCHANGED result
                    ELSE /\ result' = "Err" /\ pc' = "done"
                         /\ UNCHANGED buffer
    /\ UNCHANGED <<self, fnVars, deployment, existing_vars, new_vars,
                   deployment_configs_patch, requests, response, stdout, out_file>>

\* lines 358-365: write the lines to the output path
ToEnvWriteFile ==
    /\ pc = "toenv_output"
    /\ IsSome(self.output)
    /\ \/ /\ CreateFails
          /\ result' = "Err"
          /\ UNCHANGED stdout
       \/ /\ WriteFails
          /\ result' = "Err"
          /\ UNCHANGED stdout
       \/ /\ WriteSucceeds(buffer)
          /\ stdout' = Append(stdout, Line("Environment variables written to: .env"))
          /\ result' = "Ok"
    /\ pc' = "done"
    /\ UNCHANGED <<self, fnVars, runVars, requests, response>>

\* lines 366-368: print the lines
ToEnvPrint ==
    /\ pc = "toenv_output"
    /\ IsNone(self.output)
    /\ stdout' = Append(stdout, <<"text", buffer>>)
    /\ result' = "Ok" /\ pc' = "done"
    /\ UNCHANGED <<self, fnVars, runVars, requests, response, out_file>>

NextRender == ToEnvRead \/ ToEnvWriteFile \/ ToEnvPrint

SpecRender == InitRender /\ [][NextRender]_vars

(***************************************************************************)
(* Properties of generate_env_patch (SpecDiff)                             *)
(***************************************************************************)
\* the changes map returned by generate_env_patch
Changes == Unwrap(env_patch.env_vars)
\* the names whose entry in the changes map is null
NullEntries == {name \in DOMAIN Changes : IsNone(Changes[name])}

\* C1: when desired is present, every name that is in desired but not in current,
\* and every name that is in both with a different value, has the entry
\* Some(plain-text value equal to the desired value) in the changes map; this
\* holds for the empty string too (the entry is Some(""), never None).
C1_NewAndChangedAreSome ==
    (pc = "returned" /\ IsSome(new_env)) =>
        LET desired == Unwrap(new_env)
        IN  \A name \in DOMAIN desired :
                (name \notin DOMAIN old_env \/ old_env[name] # desired[name]) =>
                    /\ name \in DOMAIN Changes
                    /\ Changes[name] = <<[type |-> "plain_text", value |-> desired[name]]>>

\* a value changed to the empty string next to a name that is new
C1_Witness ==
    /\ pc = "returned" /\ IsSome(new_env)
    /\ \E changed, added \in DOMAIN Unwrap(new_env) :
          /\ changed \in DOMAIN old_env /\ old_env[changed] # ""
          /\ Unwrap(new_env)[changed] = ""
          /\ Changes[changed] = <<[type |-> "plain_text", value |-> ""]>>
          /\ added \notin DOMAIN old_env
          /\ Changes[added] = <<[type |-> "plain_text", value |-> Unwrap(new_env)[added]]>>

\* C2: when desired is present, every name that is in current and not in desired
\* has the entry None in the changes map; when desired is absent no name has a
\* None entry.
C2_RemovedAreNone ==
    pc = "returned" =>
        IF IsSome(new_env)
        THEN \A name \in (DOMAIN old_env) \ (DOMAIN Unwrap(new_env)) :
                 name \in DOMAIN Changes /\ Changes[name] = None
        ELSE NullEntries = {}

\* one name is removed while another one is kept with a new value
C2_Witness ==
    /\ pc = "returned" /\ IsSome(new_env)
    /\ \E removed, kept \in DOMAIN old_env :
          /\ removed \notin DOMAIN Unwrap(new_env)
          /\ Changes[removed] = None
          /\ kept \in DOMAIN Unwrap(new_env)
          /\ Unwrap(new_env)[kept] # old_env[kept]
          /\ IsSome(Changes[kept])

\* C3: a name that is in both maps with equal values is not a key of the changes
\* map; when desired equals current the changes map is empty.
C3_EqualAreLeftOut ==
    (pc = "returned" /\ IsSome(new_env)) =>
        LET desired == Unwrap(new_env)
        IN  /\ \A name \in (DOMAIN old_env) \cap (DOMAIN desired) :
                   old_env[name] = desired[name] => name \notin DOMAIN Changes
            /\ desired = old_env => DOMAIN Changes = {}

\* an unchanged name next to a name that has an entry
C3_Witness ==
    /\ pc = "returned" /\ IsSome(new_env)
    /\ \E same, other \in DOMAIN old_env :
          /\ same \in DOMAIN Unwrap(new_env) /\ Unwrap(new_env)[same] = old_env[same]
          /\ same \notin DOMAIN Changes
          /\ other \in DOMAIN Changes

\* C4: when desired is absent the changes map is empty, whatever current holds.
C4_AbsentDesiredChangesNothing ==
    (pc = "returned" /\ IsNone(new_env)) =>
        /\ IsSome(env_patch.env_vars)
        /\ DOMAIN Changes = {}

\* desired is absent and current holds every name
C4_Witness ==
    /\ pc = "returned" /\ IsNone(new_env)
    /\ DOMAIN old_env = Names
    /\ DOMAIN Changes = {}

(***************************************************************************)
(* Properties of the conversion to a flat map (SpecConv)                   *)
(***************************************************************************)
\* C6: the conversion yields the empty map when env_vars is absent; when env_vars
\* is present the result has exactly the same names, a name with a present value
\* maps to that value's string and a name whose value is absent maps to "".
C6_FlatMapOfEnvironment ==
    pc = "returned" =>
        IF IsNone(env_config.env_vars)
        THEN DOMAIN var_map = {}
        ELSE LET env_vars == env_config.env_vars[1]
             IN  /\ DOMAIN var_map = DOMAIN env_vars
                 /\ \A name \in DOMAIN env_vars :
                        IF Len(env_vars[name]) = 1
                        THEN var_map[name] = env_vars[name][1].value
                        ELSE var_map[name] = ""

\* a name with a value next to a name whose value is absent
C6_Witness ==
    /\ pc = "returned" /\ IsSome(env_config.env_vars)
    /\ \E present, absent \in DOMAIN var_map :
          /\ IsSome(Unwrap(env_config.env_vars)[present])
          /\ var_map[present] # ""
          /\ IsNone(Unwrap(env_config.env_vars)[absent])
          /\ var_map[absent] = ""

(***************************************************************************)
(* Properties of SetEnvVars::run (SpecPush)                                *)
(***************************************************************************)
\* the PATCH requests among the requests sent
Patches(reqs) == {i \in DOMAIN reqs : reqs[i].method = "PATCH"}
\* the desired-state file has been read and parsed
FileParsed == DOMAIN new_vars # {}
\* both changes maps of a patch are empty or absent
BothChangesEmpty(configs) ==
    \A env \in Environment :
        \/ configs[env].env_vars = <<>>
        \/ DOMAIN configs[env].env_vars[1] = {}

\* C5: a PATCH request is submitted if and only if the combined patch is not
\* empty, the patch being empty exactly when both the preview and the production
\* changes maps are empty or absent; with an empty patch nothing is submitted and
\* the run ends with the no-change outcome.
C5_PatchSentIffNotEmpty ==
    /\ pc = "set_get_project" =>
          \A configs \in CloudflarePagesDeploymentConfigs(FileNames) :
              is_empty(configs) <=> BothChangesEmpty(configs)
    /\ (pc = "done" /\ FileParsed) =>
          /\ Patches(requests) # {} <=> ~BothChangesEmpty(deployment_configs_patch)
          /\ BothChangesEmpty(deployment_configs_patch) =>
                /\ requests = <<GetProject>>
                /\ result = "Ok"
                /\ stdout = <<Line("No changes detected. Not submitting patch.")>>

\* the run ended without a PATCH although one environment is not empty
C5_Witness ==
    /\ pc = "done" /\ FileParsed
    /\ BothChangesEmpty(deployment_configs_patch)
    /\ Patches(requests) = {}
    /\ existing_vars.production # EmptyMap
    /\ IsSome(new_vars.production)
    /\ result = "Ok"

\* C9: a PATCH is only sent after the GET of the project ended with an envelope
\* whose success is true and after the desired-state file was read and parsed; if
\* the GET fails or reports success = false, or the file cannot be read, the run
\* ends in an error with no PATCH sent; a run sends at most one PATCH.
C9_Step ==
    /\ Patches(requests') # Patches(requests) =>
          /\ requests = <<GetProject>>
          /\ response = Envelope(TRUE)
          /\ FileParsed
          /\ pc' = "done"
    /\ (pc = "set_get_project" /\ response' # Envelope(TRUE)) =>
          /\ pc' = "done" /\ result' = "Err"
          /\ Patches(requests') = {}
    /\ (pc = "set_read_file" /\ ~FileParsed') =>
          /\ pc' = "done" /\ result' = "Err"
          /\ Patches(requests') = {}
    /\ pc = "done" => requests' = requests
    /\ Cardinality(Patches(requests')) <= 1

C9_PatchOnlyAfterGetAndFile == [][C9_Step]_vars

\* a run that sent its PATCH
C9_Witness ==
    /\ pc = "done"
    /\ Len(requests) = 2
    /\ requests[1] = GetProject
    /\ requests[2] = PatchProject(deployment_configs_patch)
    /\ result = "Ok"

\* a patch section applied to a map: Some(v) sets the name to v, None removes
\* the name, a name that is not in the section is left as it is
ApplySection(section, current) ==
    LET changes == section.env_vars[1]
        set     == {name \in DOMAIN changes : Len(changes[name]) = 1}
        removed == {name \in DOMAIN changes : Len(changes[name]) = 0}
    IN  [name \in ((DOMAIN current) \cup set) \ removed |->
            IF name \in set THEN changes[name][1].value ELSE current[name]]

OtherEnvironment(env) == IF env = "production" THEN "preview" ELSE "production"

\* C10: the section of the patch for an environment, applied to the current map
\* of that environment, yields the desired map when the desired section is
\* present and the current map when it is absent; the section of one environment
\* does not change when the current or the desired map of the other one does.
C10_PatchSoundCompleteIndependent ==
    pc = "set_submit" =>
        \A env \in Environment :
            LET applied == ApplySection(deployment_configs_patch[env], existing_vars[env])
                other   == OtherEnvironment(env)
            IN  /\ IF new_vars[env] # <<>>
                   THEN applied = new_vars[env][1]
                   ELSE applied = existing_vars[env]
                /\ \A current \in VariableMaps(FileNames) :
                       generate_deployment_configs_patch(
                           [existing_vars EXCEPT ![other] = current], new_vars)[env]
                       = deployment_configs_patch[env]
                /\ \A desired \in Option(VariableMaps(FileNames)) :
                       generate_deployment_configs_patch(
                           existing_vars, [new_vars EXCEPT ![other] = desired])[env]
                       = deployment_configs_patch[env]

\* one environment is changed while the other one, not empty, is left alone
C10_Witness ==
    /\ pc = "set_submit"
    /\ IsSome(new_vars.preview) /\ IsNone(new_vars.production)
    /\ existing_vars.production # EmptyMap
    /\ existing_vars.preview # Unwrap(new_vars.preview)
    /\ ApplySection(deployment_configs_patch.preview, existing_vars.preview)
          = Unwrap(new_vars.preview)
    /\ ApplySection(deployment_configs_patch.production, existing_vars.production)
          = existing_vars.production

(***************************************************************************)
(* Properties of ToEnvFile::run (SpecRender)                               *)
(***************************************************************************)
\* the input file has been read and parsed
InputParsed == DOMAIN all_vars # {}
\* the section of the input file for the environment given on the command line
SelectedSection == all_vars[self.environment]
\* something was printed or the output file was created
OutputProduced == stdout # <<>> \/ out_file.state # "untouched"

\* C7: when the section of the selected environment is absent from the input
\* file the run ends in an error and writes nothing, neither to a file nor to
\* stdout; output is produced only when the selected section is present.
C7_AbsentSectionIsAnError ==
    /\ (InputParsed /\ SelectedSection = <<>>) =>
          /\ pc = "done" /\ result = "Err"
          /\ ~OutputProduced
    /\ OutputProduced => (InputParsed /\ SelectedSection # <<>>)

\* the selected section is absent while the other one holds a variable
C7_Witness ==
    /\ pc = "done" /\ result = "Err"
    /\ InputParsed
    /\ SelectedSection = <<>>
    /\ \E env \in Environment :
          /\ all_vars[env] # <<>>
          /\ DOMAIN all_vars[env][1] # {}
    /\ ~OutputProduced

(***************************************************************************)
(* Properties of GetEnvVars::run (SpecFetch)                               *)
(***************************************************************************)
\* the fetch succeeded and existing_vars is built
Fetched == pc \in {"get_output", "done"} /\ response = Envelope(TRUE)
\* the flat variables of the fetched deployment
DeploymentVars ==
    IF deployment.vars.env_vars = <<>>
    THEN <<>>
    ELSE LET env_vars == deployment.vars.env_vars[1]
         IN  [name \in DOMAIN env_vars |->
                 IF env_vars[name] = <<>> THEN "" ELSE env_vars[name][1].value]
\* the JSON documents the run has written, to the output file or to stdout
Written ==
    (IF out_file.state = "written" THEN {out_file.content} ELSE {})
    \cup {stdout[i][2] : i \in {j \in DOMAIN stdout : stdout[j][1] = "json"}}

\* C8: a single-deployment fetch produces a partial env file in which exactly one
\* of production / preview is present, the one named by the deployment's
\* environment tag, holding the deployment's flattened variables, the other one
\* being absent; a whole-project fetch produces a file with both sections present.
C8_FetchedSections ==
    Fetched =>
        IF self.deployment # <<>>
        THEN LET tag   == deployment.environment
                 other == OtherEnvironment(tag)
             IN  /\ existing_vars[tag] = <<DeploymentVars>>
                 /\ existing_vars[other] = <<>>
                 /\ \A doc \in Written :
                        /\ doc[tag] = <<"object", DeploymentVars>>
                        /\ doc[other] = <<"null">>
        ELSE /\ existing_vars.production # <<>>
             /\ existing_vars.preview # <<>>
             /\ \A doc \in Written :
                    /\ doc.production = <<"object", existing_vars.production[1]>>
                    /\ doc.preview = <<"object", existing_vars.preview[1]>>

\* the file of a preview deployment that has variables was written
C8_Witness ==
    /\ pc = "done" /\ result = "Ok"
    /\ self.deployment # <<>>
    /\ deployment.environment = "preview"
    /\ out_file.state = "written"
    /\ out_file.content.production = <<"null">>
    /\ out_file.content.preview[1] = "object"
    /\ DOMAIN out_file.content.preview[2] = Names

====
